---- MODULE Spec2Model ----
(***************************************************************************)
(* A model of the Jackett API client of src/client.go: a client value     *)
(* built by NewClient, its public operations, the request each of them    *)
(* hands to the HTTP transport and the (value, error) pair it returns for *)
(* every answer the transport can give.                                   *)
(*                                                                         *)
(* Text is modelled by structure.  A URL text is the record of its        *)
(* components as they are written (scheme, host[:port], the path as the   *)
(* sequence of its '/'-separated segments, the query as the sequence of   *)
(* its '&'-separated segments, fragment); a response                      *)
(* body is the record of the document it spells; an error message is the  *)
(* sequence of the parts fmt.Errorf concatenates.                         *)
(***************************************************************************)
EXTENDS Integers, Sequences, FiniteSets, TLC

VARIABLES
    client,     \* the Client value: transport handle, baseURL, apiKey
    phase,      \* "idle": no call in progress; "returned": a call has returned
    call,       \* the operation last invoked and its arguments
    requests,   \* the requests that call handed to the transport, in order
    reply,      \* what the transport answered to that call's request
    ret,        \* what the call returned: value, error (or a panic)
    inflight    \* per goroutine sharing the client: its call and how far it got

vars == <<client, phase, call, requests, reply, ret, inflight>>

(***************************************************************************)
(* Bounds of the model.                                                    *)
(***************************************************************************)
MaxQueryLen == 2    \* segments in the query of a download link
MaxIndexers == 2    \* <indexer> elements in a listing
MaxCats == 2        \* <category> elements in an indexer
MaxSubcats == 2     \* <subcat> elements in a category
MaxResults == 2     \* elements of Results in a search response
NumCallers == 2     \* goroutines calling methods of one client at once

SeqsUpTo(S, n) == UNION {[1..k -> S] : k \in 0..n}

Range(s) == {s[i] : i \in 1..Len(s)}

RECURSIVE MapSeq(_, _)
MapSeq(F(_), s) == IF s = <<>> THEN <<>> ELSE <<F(Head(s))>> \o MapSeq(F, Tail(s))

(***************************************************************************)
(* net/url: URLs, queries and url.Values.                                  *)
(***************************************************************************)

\* A query segment as written between '&'s.  ok = FALSE is a segment that
\* url.ParseQuery rejects (a bad percent escape, a ';'): Query() drops it.
Seg(k, v) == [key |-> k, val |-> v, ok |-> TRUE]
BadSeg == [key |-> "file", val |-> "%zz", ok |-> FALSE]

\* A URL text.  ok = FALSE is a text url.Parse rejects.
UrlText(s, h, p, q, f) ==
    [ok |-> TRUE, scheme |-> s, host |-> h, path |-> p, query |-> q, fragment |-> f]
BadUrlText ==
    [ok |-> FALSE, scheme |-> "", host |-> "", path |-> <<>>, query |-> <<>>, fragment |-> ""]

\* url.Parse: the *url.URL (nil on error) and the error.
Parse(text) ==
    IF text.ok
    THEN [err |-> FALSE,
          url |-> [Scheme |-> text.scheme, Host |-> text.host, Path |-> text.path,
                   RawQuery |-> text.query, Fragment |-> text.fragment]]
    ELSE [err |-> TRUE, url |-> [isNil |-> TRUE]]

\* (*URL).String
String(u) == UrlText(u.Scheme, u.Host, u.Path, u.RawQuery, u.Fragment)

\* (*URL).Query: url.ParseQuery(RawQuery) with its error dropped; a key maps
\* to its values in textual order.
Query(u) ==
    LET good == SelectSeq(u.RawQuery, LAMBDA s : s.ok)
    IN  [k \in {s.key : s \in Range(good)} |->
            MapSeq(LAMBDA s : s.val, SelectSeq(good, LAMBDA s : s.key = k))]

\* Values.Get: the first value of the key, "" when there is none.
Get(v, k) == IF k \in DOMAIN v /\ Len(v[k]) > 0 THEN v[k][1] ELSE ""

\* Values.Set: replaces every value of the key by the one given.
Set(v, k, val) == [x \in DOMAIN v \cup {k} |-> IF x = k THEN <<val>> ELSE v[x]]

\* The keys of the model in the byte order Values.Encode sorts them by.
KeyOrder == <<"Query", "apikey", "configured", "file", "t">>

RECURSIVE EncodeFrom(_, _)
EncodeFrom(v, i) ==
    IF i > Len(KeyOrder) THEN <<>>
    ELSE (IF KeyOrder[i] \in DOMAIN v
          THEN MapSeq(LAMBDA x : Seg(KeyOrder[i], x), v[KeyOrder[i]])
          ELSE <<>>) \o EncodeFrom(v, i + 1)

\* Values.Encode: "key=value" segments sorted by key.
Encode(v) == EncodeFrom(v, 1)

\* url.Values{} followed by params.Set calls.
NoValues == [k \in {} |-> <<>>]

(***************************************************************************)
(* Errors, results, transport replies.                                     *)
(***************************************************************************)

\* The parts of an error message.
Lit(s) == [lit |-> s]
Num(n) == [num |-> ToString(n)]          \* %d
Text(b) == [body |-> b]                  \* %s of string(body)

NilErr == [isNil |-> TRUE, msg |-> <<>>]
Errorf(parts) == [isNil |-> FALSE, msg |-> parts]

NilVal == [isNil |-> TRUE]
Request(urlText) == [method |-> "GET", url |-> urlText]

\* The transport failed before any response (no status).
TransportFailure == [kind |-> "error"]
\* A response: status, the bytes its body stream yields, and whether the
\* stream ends with a read error instead of EOF.
Response(st, b, re) == [kind |-> "response", status |-> st, body |-> b, readErr |-> re]
NoReply == [kind |-> "none"]

\* io.ReadAll(resp.Body): the bytes read (never nil) and the read error.
ReadAll(r) ==
    [data |-> [isNil |-> FALSE, bytes |-> r.body],
     err |-> IF r.readErr THEN Errorf(<<Lit("unexpected EOF")>>) ELSE NilErr]

StatusOK == 200

(***************************************************************************)
(* Response bodies.                                                        *)
(***************************************************************************)

\* Bytes that are neither JSON nor XML (a torrent file, plain text).
Bytes(t) == [kind |-> "bytes", text |-> t]

\* An optional XML child element with text content / with two attributes.
Absent == [present |-> FALSE, text |-> ""]
Elem(t) == [present |-> TRUE, text |-> t]
NoSearchElem == [present |-> FALSE, available |-> "", supportedParams |-> ""]
SearchElem(a, p) == [present |-> TRUE, available |-> a, supportedParams |-> p]

\* An XML body: the name of its root element ("" when the text holds no
\* element), where its text stops being well-formed ("no": nowhere,
\* "inside": within the root element, e.g. an unterminated tag, "after":
\* behind the root element's end tag), and what the root element holds.
XmlBody(r, b, idx, c, d) ==
    [kind |-> "xml", root |-> r, broken |-> b, indexers |-> idx,
     code |-> c, description |-> d]

\* <indexers> ... </indexers>
IndexersXml(idx) == XmlBody("indexers", "no", idx, "", "")
\* <error code=".." description=".." />
ErrorXml(c, d) == XmlBody("error", "no", <<>>, c, d)

\* A JSON body: the kind of its top-level value and, for an object, its
\* Results member.
JsonBody(t, res) == [kind |-> "json", top |-> t, results |-> res]
\* A body that is not valid JSON is any body of another kind.

\* The texts a body contains verbatim, among those the properties ask for.
TextsIn(b) ==
    IF b.kind = "bytes" THEN {b.text}
    ELSE IF b.kind = "xml" /\ b.root = "error" THEN {b.code, b.description}
    ELSE {}

(***************************************************************************)
(* encoding/xml and encoding/json.                                         *)
(***************************************************************************)

\* strconv.ParseInt / ParseBool of an attribute value after TrimSpace, as
\* xml's copyValue applies them: an empty value gives the zero value.
IntTexts == {"", "1000", "2000", "2010", "2020", "5000", " 8000 "}
Atoi(t) ==
    CASE t = "" -> 0
      [] t = "1000" -> 1000
      [] t = "2000" -> 2000
      [] t = "2010" -> 2010
      [] t = "2020" -> 2020
      [] t = "5000" -> 5000
      [] t = " 8000 " -> 8000
      [] OTHER -> 0
IntOk(t) == t \in IntTexts

BoolTexts == {"", "true", "false", "1", "0"}
ParseBool(t) == t \in {"true", "1"}
BoolOk(t) == t \in BoolTexts

\* Whether every typed attribute of the listing converts.
AttrsOk(idx) ==
    \A i \in 1..Len(idx) :
        /\ BoolOk(idx[i].configured)
        /\ \A j \in 1..Len(idx[i].categories) :
              /\ IntOk(idx[i].categories[j].id)
              /\ \A k \in 1..Len(idx[i].categories[j].subcats) :
                    IntOk(idx[i].categories[j].subcats[k].id)

\* *TorznabSearchType: nil unless the element is there.
UnmarshalSearchType(e) ==
    IF e.present
    THEN [isNil |-> FALSE, Available |-> e.available, SupportedParams |-> e.supportedParams]
    ELSE [isNil |-> TRUE]

UnmarshalSubcat(e) == [ID |-> Atoi(e.id), Name |-> e.name]

UnmarshalCategory(e) ==
    [ID |-> Atoi(e.id), Name |-> e.name, Subcats |-> MapSeq(UnmarshalSubcat, e.subcats)]

\* TorznabIndexer: a missing text element leaves the zero value "".
UnmarshalIndexer(e) ==
    [ID |-> e.id,
     Configured |-> ParseBool(e.configured),
     Title |-> e.title.text,
     Description |-> e.description.text,
     Link |-> e.link.text,
     Language |-> e.language.text,
     Type |-> e.type.text,
     Caps |-> [Server |-> [Title |-> e.server],
               Limits |-> [Default |-> e.limitsDefault, Max |-> e.limitsMax],
               Searching |-> [Search |-> UnmarshalSearchType(e.search),
                              TVSearch |-> UnmarshalSearchType(e.tvSearch),
                              MovieSearch |-> UnmarshalSearchType(e.movieSearch),
                              MusicSearch |-> UnmarshalSearchType(e.musicSearch),
                              AudioSearch |-> UnmarshalSearchType(e.audioSearch),
                              BookSearch |-> UnmarshalSearchType(e.bookSearch)],
               Categories |-> [Categories |-> MapSeq(UnmarshalCategory, e.categories)]]]

\* xml.Unmarshal leaving the zero value in a field whose attribute does not
\* convert, instead of failing.
XmlUnmarshalZeroFilling(b) ==
    IF b.kind # "xml" \/ b.root = ""
    THEN [err |-> Errorf(<<Lit("EOF")>>), v |-> [Indexers |-> <<>>]]
    ELSE IF b.root # "indexers"
    THEN [err |-> Errorf(<<Lit("expected element type <indexers> but have <"),
                           Lit(b.root), Lit(">")>>),
          v |-> [Indexers |-> <<>>]]
    ELSE IF b.broken = "inside"
    THEN [err |-> Errorf(<<Lit("XML syntax error on line "), Lit("N"),
                           Lit(": unexpected EOF")>>),
          v |-> [Indexers |-> <<>>]]
    ELSE [err |-> NilErr, v |-> [Indexers |-> MapSeq(UnmarshalIndexer, b.indexers)]]

\* xml.Unmarshal(respData, &torznabResponse).  The decoder reads up to the
\* first start element, checks its name against XMLName, decodes that one
\* element and stops at its end tag: what follows it is never read.
XmlUnmarshal(b) ==
    IF b.kind # "xml" \/ b.root = ""
    THEN [err |-> Errorf(<<Lit("EOF")>>), v |-> [Indexers |-> <<>>]]
    ELSE IF b.root # "indexers"
    THEN [err |-> Errorf(<<Lit("expected element type <indexers> but have <"),
                           Lit(b.root), Lit(">")>>),
          v |-> [Indexers |-> <<>>]]
    ELSE IF b.broken = "inside"
    THEN [err |-> Errorf(<<Lit("XML syntax error on line "), Lit("N"),
                           Lit(": unexpected EOF")>>),
          v |-> [Indexers |-> <<>>]]
    ELSE IF ~AttrsOk(b.indexers)
    THEN [err |-> Errorf(<<Lit("strconv: "), Lit("invalid syntax")>>),
          v |-> [Indexers |-> <<>>]]
    ELSE [err |-> NilErr, v |-> [Indexers |-> MapSeq(UnmarshalIndexer, b.indexers)]]

\* The member of a JSON object that fills a struct field, the field's zero
\* value when the object has no such member.
Member(o, k, zero) == IF k \in DOMAIN o THEN o[k] ELSE zero

\* The member that fills a pointer field: the field stays nil when the object
\* has no such member and points at the decoded value otherwise.
PtrMember(o, k) == IF k \in DOMAIN o THEN [isNil |-> FALSE, v |-> o[k]] ELSE NilVal

\* The member that fills a slice field: the field stays a nil slice when the
\* object has no such member; a JSON array, empty or not, gives a non-nil slice.
SliceMember(o, k) ==
    IF k \in DOMAIN o THEN [isNil |-> FALSE, elems |-> o[k]]
    ELSE [isNil |-> TRUE, elems |-> <<>>]

\* A SearchResult with its json tags crossed: Seeders filled from "Peers"
\* and Peers from "Seeders".
UnmarshalSearchResultCrossed(o) ==
    [Title |-> Member(o, "Title", ""),
     Size |-> Member(o, "Size", 0),
     Seeders |-> Member(o, "Peers", 0),
     Peers |-> Member(o, "Seeders", 0),
     Tracker |-> Member(o, "Tracker", ""),
     InfoHash |-> Member(o, "InfoHash", ""),
     MinimumRatio |-> PtrMember(o, "MinimumRatio"),
     DownloadVolumeFactor |-> Member(o, "DownloadVolumeFactor", 0),
     Genres |-> IF "Genres" \in DOMAIN o
                THEN [isNil |-> FALSE, v |-> SliceMember(o, "Genres")] ELSE NilVal,
     Languages |-> SliceMember(o, "Languages"),
     Author |-> PtrMember(o, "Author")]

\* json.Unmarshal of one element of Results into a SearchResult: each field
\* from the member its json tag names.
UnmarshalSearchResult(o) ==
    [Title |-> Member(o, "Title", ""),
     Size |-> Member(o, "Size", 0),
     Seeders |-> Member(o, "Seeders", 0),
     Peers |-> Member(o, "Peers", 0),
     Tracker |-> Member(o, "Tracker", ""),
     InfoHash |-> Member(o, "InfoHash", ""),
     MinimumRatio |-> PtrMember(o, "MinimumRatio"),
     DownloadVolumeFactor |-> Member(o, "DownloadVolumeFactor", 0),
     Genres |-> IF "Genres" \in DOMAIN o
                THEN [isNil |-> FALSE, v |-> SliceMember(o, "Genres")] ELSE NilVal,
     Languages |-> SliceMember(o, "Languages"),
     Author |-> PtrMember(o, "Author")]

\* json.Unmarshal(respData, &response) for a SearchResponse.
JsonUnmarshalSearch(b) ==
    IF b.kind # "json"
    THEN [err |-> Errorf(<<Lit("invalid character")>>), v |-> NilVal]
    ELSE IF b.top # "object"
    THEN [err |-> Errorf(<<Lit("json: cannot unmarshal "), Lit(b.top),
                           Lit(" into Go value of type jackett.SearchResponse")>>),
          v |-> NilVal]
    ELSE [err |-> NilErr,
          v |-> [isNil |-> FALSE,
                 Results |-> [isNil |-> FALSE,
                              elems |-> MapSeq(UnmarshalSearchResult, b.results)]]]

\* json.Unmarshal(respData, &config) for a map[string]interface{}.
JsonUnmarshalConfig(b) ==
    IF b.kind # "json"
    THEN [err |-> Errorf(<<Lit("invalid character")>>), v |-> NilVal]
    ELSE IF b.top # "object"
    THEN [err |-> Errorf(<<Lit("json: cannot unmarshal "), Lit(b.top),
                           Lit(" into Go value of type map[string]interface {}")>>),
          v |-> NilVal]
    ELSE [err |-> NilErr, v |-> [isNil |-> FALSE, Results |-> b.results]]


(***************************************************************************)
(* The client.                                                             *)
(***************************************************************************)

\* NewClient: the transport given when there is one and it is not nil,
\* http.DefaultClient otherwise; baseURL and apiKey are stored unchecked.
NewClient(baseURL, apiKey, httpClient) ==
    [client |-> IF Len(httpClient) > 0 /\ httpClient[1] # "nil"
                THEN httpClient[1] ELSE "http.DefaultClient",
     baseURL |-> baseURL,
     apiKey |-> apiKey]

\* What an operation yields: the requests it sent, its value and error,
\* and whether it panicked instead of returning.
Outcome(reqs, val, err) == [reqs |-> reqs, val |-> val, err |-> err, panic |-> FALSE]
Panic(reqs) == [reqs |-> reqs, val |-> NilVal, err |-> NilErr, panic |-> TRUE]

\* doGet with the status left out of the message of a non-200 response.
doGetNoStatus(c, endpoint, query, r) ==
    LET base == Parse(c.baseURL)
        apiURL == [base.url EXCEPT !.Path = endpoint, !.RawQuery = Encode(query)]
        req == Request(String(apiURL))
    IN  IF base.err
        THEN Outcome(<<>>, NilVal, Errorf(<<Lit("failed to parse base URL: "), Lit("parse error")>>))
        ELSE IF r.kind = "error"
        THEN Outcome(<<req>>, NilVal, Errorf(<<Lit("request failed: "), Lit("transport error")>>))
        ELSE IF r.status # StatusOK
        THEN Outcome(<<req>>, NilVal,
                     Errorf(<<Lit("unexpected response: "), Text(ReadAll(r).data.bytes)>>))
        ELSE Outcome(<<req>>, ReadAll(r).data, ReadAll(r).err)

\* doGet with the body left out of the message of a non-200 response.
doGetNoBody(c, endpoint, query, r) ==
    LET base == Parse(c.baseURL)
        apiURL == [base.url EXCEPT !.Path = endpoint, !.RawQuery = Encode(query)]
        req == Request(String(apiURL))
    IN  IF base.err
        THEN Outcome(<<>>, NilVal, Errorf(<<Lit("failed to parse base URL: "), Lit("parse error")>>))
        ELSE IF r.kind = "error"
        THEN Outcome(<<req>>, NilVal, Errorf(<<Lit("request failed: "), Lit("transport error")>>))
        ELSE IF r.status # StatusOK
        THEN Outcome(<<req>>, NilVal,
                     Errorf(<<Lit("unexpected response code: "), Num(r.status)>>))
        ELSE Outcome(<<req>>, ReadAll(r).data, ReadAll(r).err)

\* doGet sending the request a second time after a failed attempt.
doGetRetrying(c, endpoint, query, r) ==
    LET base == Parse(c.baseURL)
        apiURL == [base.url EXCEPT !.Path = endpoint, !.RawQuery = Encode(query)]
        req == Request(String(apiURL))
    IN  IF base.err
        THEN Outcome(<<>>, NilVal, Errorf(<<Lit("failed to parse base URL: "), Lit("parse error")>>))
        ELSE IF r.kind = "error"
        THEN Outcome(<<req, req>>, NilVal,
                     Errorf(<<Lit("request failed: "), Lit("transport error")>>))
        ELSE IF r.status # StatusOK
        THEN Outcome(<<req, req>>, NilVal,
                     Errorf(<<Lit("unexpected response code: "), Num(r.status),
                              Lit(", response: "), Text(ReadAll(r).data.bytes)>>))
        ELSE Outcome(<<req>>, ReadAll(r).data, ReadAll(r).err)

\* doGet accepting every 2xx status instead of 200 alone.
doGetAny2xx(c, endpoint, query, r) ==
    LET base == Parse(c.baseURL)
        apiURL == [base.url EXCEPT !.Path = endpoint, !.RawQuery = Encode(query)]
        req == Request(String(apiURL))
    IN  IF base.err
        THEN Outcome(<<>>, NilVal, Errorf(<<Lit("failed to parse base URL: "), Lit("parse error")>>))
        ELSE IF r.kind = "error"
        THEN Outcome(<<req>>, NilVal, Errorf(<<Lit("request failed: "), Lit("transport error")>>))
        ELSE IF r.status \notin 200..299
        THEN Outcome(<<req>>, NilVal,
                     Errorf(<<Lit("unexpected response code: "), Num(r.status),
                              Lit(", response: "), Text(ReadAll(r).data.bytes)>>))
        ELSE Outcome(<<req>>, ReadAll(r).data, ReadAll(r).err)

\* doGet appending the endpoint and the parameters to the path and the
\* query of the base address.
doGetUnderBasePath(c, endpoint, query, r) ==
    LET base == Parse(c.baseURL)
        apiURL == [base.url EXCEPT !.Path = base.url.Path \o endpoint,
                                   !.RawQuery = base.url.RawQuery \o Encode(query)]
        req == Request(String(apiURL))
    IN  IF base.err
        THEN Outcome(<<>>, NilVal, Errorf(<<Lit("failed to parse base URL: "), Lit("parse error")>>))
        ELSE IF r.kind = "error"
        THEN Outcome(<<req>>, NilVal, Errorf(<<Lit("request failed: "), Lit("transport error")>>))
        ELSE IF r.status # StatusOK
        THEN Outcome(<<req>>, NilVal,
                     Errorf(<<Lit("unexpected response code: "), Num(r.status),
                              Lit(", response: "), Text(ReadAll(r).data.bytes)>>))
        ELSE Outcome(<<req>>, ReadAll(r).data, ReadAll(r).err)

\* doGet: one GET of baseURL with its path replaced by endpoint and its
\* query by the encoded parameters; the body of a 200 response.
doGet(c, endpoint, query, r) ==
    LET base == Parse(c.baseURL)
        apiURL == [base.url EXCEPT !.Path = endpoint, !.RawQuery = Encode(query)]
        req == Request(String(apiURL))
    IN  IF base.err
        THEN Outcome(<<>>, NilVal, Errorf(<<Lit("failed to parse base URL: "), Lit("parse error")>>))
        ELSE IF r.kind = "error"
        THEN Outcome(<<req>>, NilVal, Errorf(<<Lit("request failed: "), Lit("transport error")>>))
        ELSE IF r.status # StatusOK
        THEN Outcome(<<req>>, NilVal,
                     Errorf(<<Lit("unexpected response code: "), Num(r.status),
                              Lit(", response: "), Text(ReadAll(r).data.bytes)>>))
        ELSE Outcome(<<req>>, ReadAll(r).data, ReadAll(r).err)

\* fmt.Errorf(prefix + "%v", err)
Wrap(prefix, err) == Errorf(<<Lit(prefix)>> \o err.msg)

\* SearchParams with a parameter the endpoint does not take.
SearchParamsExtra(c, query) ==
    Set(Set(Set(NoValues, "apikey", c.apiKey), "Query", query), "t", "search")

SearchParams(c, query) == Set(Set(NoValues, "apikey", c.apiKey), "Query", query)

\* DecodeSearch returning the response it was decoding into together with
\* the decode error.
DecodeSearchKeepingValue(got) ==
    IF ~got.err.isNil
    THEN Outcome(got.reqs, NilVal, Wrap("search error: ", got.err))
    ELSE LET dec == JsonUnmarshalSearch(got.val.bytes)
         IN  IF ~dec.err.isNil
             THEN Outcome(got.reqs,
                          [isNil |-> FALSE, Results |-> [isNil |-> TRUE, elems |-> <<>>]],
                          Wrap("failed to decode search response: ", dec.err))
             ELSE Outcome(got.reqs, dec.v, NilErr)

\* The tail shared by Search and SearchWithIndexer.
DecodeSearch(got) ==
    IF ~got.err.isNil
    THEN Outcome(got.reqs, NilVal, Wrap("search error: ", got.err))
    ELSE LET dec == JsonUnmarshalSearch(got.val.bytes)
         IN  IF ~dec.err.isNil
             THEN Outcome(got.reqs, NilVal, Wrap("failed to decode search response: ", dec.err))
             ELSE Outcome(got.reqs, dec.v, NilErr)

Search(c, query, r) ==
    DecodeSearch(doGet(c, <<"api", "v2.0", "indexers", "all", "results">>, SearchParams(c, query), r))

\* IndexerEndpoint with url.PathEscape(indexerID): the '/' of an indexerID
\* is escaped, which leaves it one segment.
IndexerEndpointEscaped(indexerID) ==
    <<"api", "v2.0", "indexers">>
        \o (IF Len(indexerID) <= 1 THEN indexerID ELSE <<"a%2Fb">>)
        \o <<"results">>

\* fmt.Sprintf("/api/v2.0/indexers/%s/results", indexerID); indexerID is
\* the sequence of the segments its '/'s separate (one, as a rule).
IndexerEndpoint(indexerID) == <<"api", "v2.0", "indexers">> \o indexerID \o <<"results">>

SearchWithIndexer(c, indexerID, query, r) ==
    DecodeSearch(doGet(c, IndexerEndpoint(indexerID), SearchParams(c, query), r))

GetServerConfig(c, r) ==
    LET got == doGet(c, <<"api", "v2.0", "server", "config">>, Set(NoValues, "apikey", c.apiKey), r)
    IN  IF ~got.err.isNil
        THEN Outcome(got.reqs, NilVal, Wrap("get server config error: ", got.err))
        ELSE LET dec == JsonUnmarshalConfig(got.val.bytes)
             IN  IF ~dec.err.isNil
                 THEN Outcome(got.reqs, NilVal, Wrap("failed to decode server config: ", dec.err))
                 ELSE Outcome(got.reqs, dec.v, NilErr)

\* TestConnection decoding the body it fetched as the JSON listing.
TestConnectionDecoding(c, r) ==
    LET got == doGet(c, <<"api", "v2.0", "indexers">>, Set(NoValues, "apikey", c.apiKey), r)
    IN  IF ~got.err.isNil
        THEN Outcome(got.reqs, NilVal, Wrap("connection test failed: ", got.err))
        ELSE IF got.val.bytes.kind # "json" \/ got.val.bytes.top # "array"
        THEN Outcome(got.reqs, NilVal,
                     Wrap("connection test failed: ", Errorf(<<Lit("invalid character")>>)))
        ELSE Outcome(got.reqs, NilVal, NilErr)

\* TestConnection: a GET of the indexers endpoint whose body is dropped.
TestConnection(c, r) ==
    LET got == doGet(c, <<"api", "v2.0", "indexers">>, Set(NoValues, "apikey", c.apiKey), r)
    IN  IF ~got.err.isNil
        THEN Outcome(got.reqs, NilVal, Wrap("connection test failed: ", got.err))
        ELSE Outcome(got.reqs, NilVal, NilErr)

\* convertSearchType giving an empty record for a nil pointer.
convertSearchTypeDefault(t) ==
    IF t.isNil THEN [isNil |-> FALSE, Available |-> "", SupportedParams |-> ""]
    ELSE [isNil |-> FALSE, Available |-> t.Available, SupportedParams |-> t.SupportedParams]

\* convertSearchType
convertSearchType(t) ==
    IF t.isNil THEN [isNil |-> TRUE]
    ELSE [isNil |-> FALSE, Available |-> t.Available, SupportedParams |-> t.SupportedParams]

\* A slice built by append from a nil slice: nil when nothing is appended.
MakeSliceNilWhenEmpty(elems) ==
    IF elems = <<>> THEN [isNil |-> TRUE, elems |-> <<>>] ELSE [isNil |-> FALSE, elems |-> elems]

\* make([]T, n) filled in by index: never nil, also when n = 0.
MakeSlice(elems) == [isNil |-> FALSE, elems |-> elems]

\* Subcat(sub)
convertSubcat(sub) == [ID |-> sub.ID, Name |-> sub.Name]

\* convertCategory without the loop over cat.Subcats.
convertCategoryNoSubcats(cat) ==
    [ID |-> cat.ID, Name |-> cat.Name, Subcats |-> MakeSlice(<<>>)]

convertCategory(cat) ==
    [ID |-> cat.ID, Name |-> cat.Name,
     Subcats |-> MakeSlice(MapSeq(convertSubcat, cat.Subcats))]

\* convertIndexer with the two limits attributes exchanged.
convertIndexerLimitsSwapped(tIdx) ==
    [ID |-> tIdx.ID,
     Name |-> tIdx.Title,
     Description |-> tIdx.Description,
     Type |-> tIdx.Type,
     Configured |-> tIdx.Configured,
     SiteLink |-> tIdx.Link,
     Language |-> tIdx.Language,
     Caps |-> [isNil |-> FALSE,
               Server |-> tIdx.Caps.Server.Title,
               Limits |-> [Default |-> tIdx.Caps.Limits.Max,
                           Max |-> tIdx.Caps.Limits.Default],
               Searching |->
                  [Search |-> convertSearchType(tIdx.Caps.Searching.Search),
                   TVSearch |-> convertSearchType(tIdx.Caps.Searching.TVSearch),
                   MovieSearch |-> convertSearchType(tIdx.Caps.Searching.MovieSearch),
                   MusicSearch |-> convertSearchType(tIdx.Caps.Searching.MusicSearch),
                   AudioSearch |-> convertSearchType(tIdx.Caps.Searching.AudioSearch),
                   BookSearch |-> convertSearchType(tIdx.Caps.Searching.BookSearch)]],
     Categories |-> MakeSlice(MapSeq(convertCategory, tIdx.Caps.Categories.Categories))]

\* The body of GetIndexers' loop: TorznabIndexer to Indexer.
convertIndexer(tIdx) ==
    [ID |-> tIdx.ID,
     Name |-> tIdx.Title,
     Description |-> tIdx.Description,
     Type |-> tIdx.Type,
     Configured |-> tIdx.Configured,
     SiteLink |-> tIdx.Link,
     Language |-> tIdx.Language,
     Caps |-> [isNil |-> FALSE,
               Server |-> tIdx.Caps.Server.Title,
               Limits |-> [Default |-> tIdx.Caps.Limits.Default,
                           Max |-> tIdx.Caps.Limits.Max],
               Searching |->
                  [Search |-> convertSearchType(tIdx.Caps.Searching.Search),
                   TVSearch |-> convertSearchType(tIdx.Caps.Searching.TVSearch),
                   MovieSearch |-> convertSearchType(tIdx.Caps.Searching.MovieSearch),
                   MusicSearch |-> convertSearchType(tIdx.Caps.Searching.MusicSearch),
                   AudioSearch |-> convertSearchType(tIdx.Caps.Searching.AudioSearch),
                   BookSearch |-> convertSearchType(tIdx.Caps.Searching.BookSearch)]],
     Categories |-> MakeSlice(MapSeq(convertCategory, tIdx.Caps.Categories.Categories))]

\* The parameters of the JSON listing: no t=indexers.
GetIndexersParamsLegacy(c) ==
    Set(Set(NoValues, "apikey", c.apiKey), "configured", "true")

GetIndexersParams(c) ==
    Set(Set(Set(NoValues, "apikey", c.apiKey), "t", "indexers"), "configured", "true")

\* GetIndexers listing the configured indexers only.
GetIndexersConfiguredOnly(c, r) ==
    LET got == doGet(c, <<"api", "v2.0", "indexers", "all", "results", "torznab">>, GetIndexersParams(c), r)
        IsConfigured(x) == x.Configured
    IN  IF ~got.err.isNil
        THEN Outcome(got.reqs, NilVal, Wrap("get indexers error: ", got.err))
        ELSE LET dec == XmlUnmarshal(got.val.bytes)
             IN  IF ~dec.err.isNil
                 THEN Outcome(got.reqs, NilVal,
                              Wrap("failed to decode indexers response: ", dec.err))
                 ELSE Outcome(got.reqs,
                              MakeSlice(SelectSeq(MapSeq(convertIndexer, dec.v.Indexers),
                                                  IsConfigured)),
                              NilErr)

GetIndexers(c, r) ==
    LET got == doGet(c, <<"api", "v2.0", "indexers", "all", "results", "torznab">>, GetIndexersParams(c), r)
    IN  IF ~got.err.isNil
        THEN Outcome(got.reqs, NilVal, Wrap("get indexers error: ", got.err))
        ELSE LET dec == XmlUnmarshal(got.val.bytes)
             IN  IF ~dec.err.isNil
                 THEN Outcome(got.reqs, NilVal,
                              Wrap("failed to decode indexers response: ", dec.err))
                 ELSE Outcome(got.reqs, MakeSlice(MapSeq(convertIndexer, dec.v.Indexers)), NilErr)

\* Fetch returning the body of a 200 response without its read error.
FetchIgnoringReadError(urlText, r) ==
    LET req == Request(urlText)
    IN  IF r.kind = "error"
        THEN Outcome(<<req>>, NilVal, Errorf(<<Lit("download error: "), Lit("transport error")>>))
        ELSE IF r.status # StatusOK
        THEN Outcome(<<req>>, NilVal,
                     Errorf(<<Lit("download failed ("), Num(r.status), Lit("): "),
                              Text(ReadAll(r).data.bytes)>>))
        ELSE Outcome(<<req>>, ReadAll(r).data, NilErr)

\* c.client.Get(url) and the handling of its answer in DownloadTorrent.
Fetch(urlText, r) ==
    LET req == Request(urlText)
    IN  IF r.kind = "error"
        THEN Outcome(<<req>>, NilVal, Errorf(<<Lit("download error: "), Lit("transport error")>>))
        ELSE IF r.status # StatusOK
        THEN Outcome(<<req>>, NilVal,
                     Errorf(<<Lit("download failed ("), Num(r.status), Lit("): "),
                              Text(ReadAll(r).data.bytes)>>))
        ELSE Outcome(<<req>>, ReadAll(r).data, ReadAll(r).err)

\* WithApiKey without the write-back of the query to linkURL.RawQuery.
WithApiKeyNotWrittenBack(c, linkURL) == linkURL

\* WithApiKey without the test for a key that is already there.
WithApiKeyAlways(c, linkURL) ==
    [linkURL EXCEPT !.RawQuery = Encode(Set(Query(linkURL), "apikey", c.apiKey))]

\* The link DownloadTorrent fetches when the link is on the base host.
WithApiKey(c, linkURL) ==
    LET query == Query(linkURL)
    IN  IF Get(query, "apikey") = ""
        THEN [linkURL EXCEPT !.RawQuery = Encode(Set(query, "apikey", c.apiKey))]
        ELSE linkURL

\* DownloadTorrent without the comparison of the hosts.
DownloadTorrentNoHostCheck(c, link, r) ==
    LET linkP == Parse(link)
        baseP == Parse(c.baseURL)
    IN  IF linkP.err
        THEN Outcome(<<>>, NilVal, Errorf(<<Lit("invalid download link: "), Lit("parse error")>>))
        ELSE IF baseP.err
        THEN Panic(<<>>)
        ELSE Fetch(String(WithApiKey(c, linkP.url)), r)

\* DownloadTorrent adding the key only to links of the base address's scheme
\* and host.
DownloadTorrentSameOrigin(c, link, r) ==
    LET linkP == Parse(link)
        baseP == Parse(c.baseURL)
    IN  IF linkP.err
        THEN Outcome(<<>>, NilVal, Errorf(<<Lit("invalid download link: "), Lit("parse error")>>))
        ELSE IF baseP.err
        THEN Panic(<<>>)
        ELSE IF linkP.url.Host # baseP.url.Host \/ linkP.url.Scheme # baseP.url.Scheme
        THEN Fetch(link, r)
        ELSE Fetch(String(WithApiKey(c, linkP.url)), r)

DownloadTorrent(c, link, r) ==
    LET linkP == Parse(link)
        baseP == Parse(c.baseURL)
    IN  IF linkP.err
        THEN Outcome(<<>>, NilVal, Errorf(<<Lit("invalid download link: "), Lit("parse error")>>))
        ELSE IF baseP.err
        THEN Panic(<<>>)            \* baseURL is nil: baseURL.Host dereferences it
        ELSE IF linkP.url.Host # baseP.url.Host
        THEN Fetch(link, r)
        ELSE Fetch(String(WithApiKey(c, linkP.url)), r)


(***************************************************************************)
(* The inputs of the model.                                                *)
(***************************************************************************)

LocalBase == UrlText("http", "localhost:9117", <<>>, <<>>, "")
PrefixBase == UrlText("https", "localhost:9117", <<"jackett">>, <<>>, "")
\* A base address with a path prefix and a query of its own.
QueryBase ==
    UrlText("http", "localhost:9117", <<"jackett">>, <<Seg("apikey", "other-key")>>, "")
\* A base address without a port.
PortlessBase == UrlText("http", "jackett.local", <<>>, <<>>, "")
BaseURLs == {LocalBase, PrefixBase, QueryBase, PortlessBase, BadUrlText}
ApiKeys == {"test-api-key", "k2"}
HttpClients == {<<>>, <<"nil">>, <<"mock">>}

Queries == {"matrix", ""}
IndexerIDs == {<<"all">>, <<"1337x">>, <<"a", "b">>}

\* Download links.
LinkSegs == {Seg("apikey", "other-key"), Seg("apikey", ""), Seg("file", "a.torrent"), BadSeg}
Links ==
    {UrlText(s, h, <<"dl", "test">>, q, f) :
        s \in {"http", "https"},
        h \in {"localhost:9117", "LOCALHOST:9117", "jackett.local:80", "external.com"},
        q \in SeqsUpTo(LinkSegs, MaxQueryLen),
        f \in {"", "top"}}
    \cup {BadUrlText}

\* Listings.
SubElems == {[id |-> "2010", name |-> "HD"], [id |-> "2020", name |-> "SD"]}
CatElem(i, n, subs) == [id |-> i, name |-> n, subcats |-> subs]
CatElems ==
    {CatElem("2000", "Movies", subs) : subs \in SeqsUpTo(SubElems, MaxSubcats)}
    \cup {CatElem("5000", "TV", <<>>)}

AllSearch == SearchElem("yes", "q")
IndexerElem(i, c, desc, lnk, lang, typ, srch, cats) ==
    [id |-> i, configured |-> c, title |-> Elem("Test Indexer"),
     description |-> desc, link |-> lnk, language |-> lang, type |-> typ,
     server |-> "Jackett", limitsDefault |-> "100", limitsMax |-> "100",
     search |-> srch[1], tvSearch |-> srch[2], movieSearch |-> srch[3],
     musicSearch |-> srch[4], audioSearch |-> srch[5], bookSearch |-> srch[6],
     categories |-> cats]

\* basicIndexerXML's indexer with the categories given.
BasicIndexer(i, c, cats) ==
    IndexerElem(i, c, Elem("Test Description"), Elem("https://test.example.com"),
                Elem("en-US"), Elem("private"), [m \in 1..6 |-> AllSearch], cats)

\* One indexer, every shape of its categories block.
CategoryListings ==
    {<<BasicIndexer("test-indexer", "true", cats)>> : cats \in SeqsUpTo(CatElems, MaxCats)}

\* One indexer, every choice of optional elements present or missing.
OptionalListings ==
    {<<IndexerElem("minimal", "true", d, l, g, t, srch, <<>>)>> :
        d \in {Absent, Elem("Test Description")},
        l \in {Absent, Elem("https://test.example.com")},
        g \in {Absent, Elem("en-US")},
        t \in {Absent, Elem("private")},
        srch \in [1..6 -> {NoSearchElem, SearchElem("no", "q,season,ep")}]}

\* Several indexers, some with attributes that do not convert.
SampleIndexers ==
    {BasicIndexer("test-indexer", "true", <<CatElem("2000", "Movies", <<>>)>>),
     BasicIndexer("other", "false", <<>>),
     BasicIndexer("other", "maybe", <<>>),
     BasicIndexer("test-indexer", "true", <<CatElem("x", "Movies", <<>>)>>),
     BasicIndexer("other", "true",
                  <<CatElem("2000", "Movies", <<[id |-> "HD", name |-> "HD"]>>)>>)}
SeveralListings == SeqsUpTo(SampleIndexers, MaxIndexers)

\* One indexer, its server title and limits attributes numeric, textual or
\* empty.
LimitsListings ==
    {<<[BasicIndexer("test-indexer", "true", <<>>)
          EXCEPT !.server = sv, !.limitsDefault = d, !.limitsMax = m]>> :
        sv \in {"Jackett", ""},
        d \in {"100", "unlimited", ""},
        m \in {"100", "unlimited"}}

Listings ==
    CategoryListings \cup OptionalListings \cup SeveralListings \cup LimitsListings

SampleResult ==
    [Title |-> "Test Result", Size |-> 1000, Seeders |-> 10, Peers |-> 5, Tracker |-> "test"]

SecondResult ==
    [Title |-> "Other Result", Size |-> 2000, Seeders |-> 3, Peers |-> 7, Tracker |-> "other"]
\* A result object that has a Title member only.
SparseResult == [Title |-> "Sparse Result"]
\* A result whose optional members are all present with their zero values.
ZeroOptionalsResult ==
    [Title |-> "Zero Result", Size |-> 0, Seeders |-> 0, Peers |-> 0, Tracker |-> "test",
     InfoHash |-> "", MinimumRatio |-> 0, DownloadVolumeFactor |-> 0,
     Genres |-> <<>>, Languages |-> <<>>, Author |-> ""]
\* A result whose optional members are all present with other values.
FullResult ==
    [Title |-> "Full Result", Size |-> 1000, Seeders |-> 10, Peers |-> 5, Tracker |-> "test",
     InfoHash |-> "hash123", MinimumRatio |-> 1, DownloadVolumeFactor |-> 1,
     Genres |-> <<"drama">>, Languages |-> <<"en">>, Author |-> "A. Author"]
SampleResults == {SampleResult, SecondResult, SparseResult, ZeroOptionalsResult, FullResult}

Statuses == {200, 204, 401, 500}
SampleBodies ==
    {Bytes("torrent file data"), Bytes(""),
     ErrorXml("100", "Invalid API Key"),
     IndexersXml(<<>>),
     XmlBody("indexers", "inside", <<>>, "", ""),
     XmlBody("indexers", "after", <<>>, "", ""),
     JsonBody("object", <<SampleResult>>),
     JsonBody("array", <<>>)}

\* Everything the transport may answer.
Replies ==
    {TransportFailure} \cup
    {Response(st, b, re) : st \in Statuses, b \in SampleBodies, re \in BOOLEAN}
ListingReplies == {Response(StatusOK, IndexersXml(idx), FALSE) : idx \in Listings}
SearchReplies ==
    {Response(StatusOK, JsonBody("object", res), FALSE) :
        res \in SeqsUpTo(SampleResults, MaxResults)}
DownloadReplies ==
    {TransportFailure} \cup
    {Response(st, b, re) : st \in {200, 404},
                           b \in {Bytes("torrent file data"), ErrorXml("100", "Invalid API Key")},
                           re \in BOOLEAN}

(***************************************************************************)
(* The state machine: a caller invokes one operation at a time.            *)
(***************************************************************************)

NoCall == [op |-> "none"]
NoRet == [val |-> NilVal, err |-> NilErr, panic |-> FALSE]

Callers == 1..NumCallers
IdleCaller == [pc |-> "idle"]

Init ==
    /\ client \in {NewClient(b, k, h) : b \in BaseURLs, k \in ApiKeys, h \in HttpClients}
    /\ phase = "idle"
    /\ call = NoCall
    /\ requests = <<>>
    /\ reply = NoReply
    /\ ret = NoRet
    /\ inflight = [p \in Callers |-> IdleCaller]

\* A method that stores the query it was given in the client's apiKey field.
ClientAfterStoring(c, cl) ==
    IF cl.op = "Search" THEN [c EXCEPT !.apiKey = cl.query] ELSE c

\* The Client value after the call cl on it: the methods read c.client,
\* c.baseURL and c.apiKey and assign none of them.
ClientAfter(c, cl) == c

\* The call c, answered r by the transport, yields out.
Returns(c, r, out) ==
    /\ phase' = "returned"
    /\ call' = c
    /\ requests' = out.reqs
    /\ reply' = IF out.reqs = <<>> THEN NoReply ELSE r
    /\ ret' = [val |-> out.val, err |-> out.err, panic |-> out.panic]
    /\ client' = ClientAfter(client, c)
    /\ UNCHANGED inflight

CallSearch ==
    /\ phase = "idle"
    /\ \E q \in Queries, r \in Replies \cup SearchReplies :
          Returns([op |-> "Search", query |-> q], r, Search(client, q, r))

CallSearchWithIndexer ==
    /\ phase = "idle"
    /\ \E id \in IndexerIDs, q \in Queries, r \in Replies \cup SearchReplies :
          Returns([op |-> "SearchWithIndexer", indexerID |-> id, query |-> q], r,
                  SearchWithIndexer(client, id, q, r))

CallGetIndexers ==
    /\ phase = "idle"
    /\ \E r \in Replies \cup ListingReplies :
          Returns([op |-> "GetIndexers"], r, GetIndexers(client, r))

CallGetServerConfig ==
    /\ phase = "idle"
    /\ \E r \in Replies :
          Returns([op |-> "GetServerConfig"], r, GetServerConfig(client, r))

CallTestConnection ==
    /\ phase = "idle"
    /\ \E r \in Replies :
          Returns([op |-> "TestConnection"], r, TestConnection(client, r))

CallDownloadTorrent ==
    /\ phase = "idle"
    /\ \E link \in Links, r \in DownloadReplies :
          Returns([op |-> "DownloadTorrent", link |-> link], r,
                  DownloadTorrent(client, link, r))

\* The caller is done with what the call returned; the client is as before.
Release ==
    /\ phase = "returned"
    /\ ~ret.panic
    /\ phase' = "idle"
    /\ call' = NoCall
    /\ requests' = <<>>
    /\ reply' = NoReply
    /\ ret' = NoRet
    /\ UNCHANGED <<client, inflight>>

Next ==
    \/ CallSearch
    \/ CallSearchWithIndexer
    \/ CallGetIndexers
    \/ CallGetServerConfig
    \/ CallTestConnection
    \/ CallDownloadTorrent
    \/ Release

Spec == Init /\ [][Next]_vars

\* ---- Several goroutines on one client ----

\* The method a call record names, applied to its arguments.
Run(c, cl, r) ==
    CASE cl.op = "Search" -> Search(c, cl.query, r)
      [] cl.op = "SearchWithIndexer" -> SearchWithIndexer(c, cl.indexerID, cl.query, r)
      [] cl.op = "GetIndexers" -> GetIndexers(c, r)
      [] cl.op = "GetServerConfig" -> GetServerConfig(c, r)
      [] cl.op = "TestConnection" -> TestConnection(c, r)
      [] cl.op = "DownloadTorrent" -> DownloadTorrent(c, cl.link, r)

\* What a method hands to the transport before any answer exists: the request
\* is built from the client and the arguments alone.
Sends(c, cl) == Run(c, cl, TransportFailure).reqs

ConcurrentCalls ==
    {[op |-> "Search", query |-> "matrix"],
     [op |-> "SearchWithIndexer", indexerID |-> <<"1337x">>, query |-> "matrix"],
     [op |-> "GetIndexers"],
     [op |-> "GetServerConfig"],
     [op |-> "TestConnection"],
     [op |-> "DownloadTorrent",
      link |-> UrlText("http", "localhost:9117", <<"dl", "test">>,
                       <<Seg("file", "a.torrent")>>, "")],
     [op |-> "DownloadTorrent",
      link |-> UrlText("https", "external.com", <<"dl", "test">>, <<>>, "")]}

ConcurrentReplies ==
    {TransportFailure,
     Response(StatusOK, JsonBody("object", <<SampleResult>>), FALSE),
     Response(StatusOK, IndexersXml(<<BasicIndexer("test-indexer", "true", <<>>)>>), FALSE),
     Response(401, ErrorXml("100", "Invalid API Key"), FALSE)}

\* An unrecovered panic in one goroutine ends the whole process.
Crashed == \E p \in Callers : inflight[p].pc = "returned" /\ inflight[p].ret.panic

\* Goroutine p enters a method and runs it up to the transport call; a method
\* that sends nothing is left to return in Complete.
Invoke(p) ==
    /\ ~Crashed
    /\ inflight[p].pc = "idle"
    /\ \E cl \in ConcurrentCalls :
          inflight' = [inflight EXCEPT ![p] =
                         [pc |-> "waiting", call |-> cl, requests |-> Sends(client, cl)]]
    /\ UNCHANGED <<client, phase, call, requests, reply, ret>>

\* The transport answers p's request (or there was none) and the method runs
\* to its return, reading the client as it is then.
Complete(p) ==
    /\ ~Crashed
    /\ inflight[p].pc = "waiting"
    /\ \E r \in ConcurrentReplies :
          LET cl == inflight[p].call
              out == Run(client, cl, r)
          IN /\ inflight' = [inflight EXCEPT ![p] =
                  [pc |-> "returned", call |-> cl,
                   requests |-> inflight[p].requests,
                   reply |-> IF inflight[p].requests = <<>> THEN NoReply ELSE r,
                   ret |-> [val |-> out.val, err |-> out.err, panic |-> out.panic]]]
             /\ client' = ClientAfter(client, cl)
    /\ UNCHANGED <<phase, call, requests, reply, ret>>

\* Goroutine p is done with what its call returned.
Forget(p) ==
    /\ ~Crashed
    /\ inflight[p].pc = "returned"
    /\ inflight' = [inflight EXCEPT ![p] = IdleCaller]
    /\ UNCHANGED <<client, phase, call, requests, reply, ret>>

ConcurrentNext ==
    \E p \in Callers :
        \/ Invoke(p)
        \/ Complete(p)
        \/ Forget(p)

SpecConcurrent == Init /\ [][ConcurrentNext]_vars


(***************************************************************************)
(* Properties.                                                             *)
(***************************************************************************)

Returned(op) == phase = "returned" /\ call.op = op

\* The transport answered the call with a response of this status.
Answered(st) == reply.kind = "response" /\ reply.status = st

\* The call returned a value and no error.
Succeeded == ~ret.panic /\ ret.err.isNil

\* DownloadTorrent was called with a link that parses, on a client whose base
\* address parses.
Downloaded == Returned("DownloadTorrent") /\ call.link.ok /\ client.baseURL.ok
SameHost == call.link.host = client.baseURL.host
HasApiKeyParam(q) == \E i \in 1..Len(q) : q[i].key = "apikey"

\* The message of the error contains the text.
ErrContains(e, t) ==
    \E i \in 1..Len(e.msg) :
        \/ "lit" \in DOMAIN e.msg[i] /\ e.msg[i].lit = t
        \/ "num" \in DOMAIN e.msg[i] /\ e.msg[i].num = t
        \/ "body" \in DOMAIN e.msg[i] /\ t \in TextsIn(e.msg[i].body)

\* C1: a link on the base host whose query has no apikey parameter is
\* fetched by one GET of the link's path whose query carries apikey, with
\* the client's API key as its only value.
C1_SameHostLinkGetsKey ==
    (Downloaded /\ SameHost /\ ~HasApiKeyParam(call.link.query))
    => /\ Len(requests) = 1
       /\ requests[1].method = "GET"
       /\ requests[1].url.path = call.link.path
       /\ HasApiKeyParam(requests[1].url.query)
       /\ \A i \in 1..Len(requests[1].url.query) :
             requests[1].url.query[i].key = "apikey"
             => requests[1].url.query[i].val = client.apiKey

C1_Witness ==
    /\ Downloaded /\ SameHost /\ ~HasApiKeyParam(call.link.query)
    /\ call.link.query # <<>>
    /\ Answered(200)
    /\ Seg("apikey", client.apiKey) \in Range(requests[1].url.query)

\* C2: a link on another host than the base address is fetched by one GET
\* of exactly the link given; every apikey parameter of the request is one
\* the link was given with, the client adds none.
C2_ExternalLinkUnmodified ==
    (Downloaded /\ ~SameHost)
    => /\ requests = <<Request(call.link)>>
       /\ \A i \in 1..Len(requests[1].url.query) :
             requests[1].url.query[i].key = "apikey"
             => requests[1].url.query[i] \in Range(call.link.query)

C2_Witness ==
    /\ Downloaded /\ call.link.host = "external.com"
    /\ ~HasApiKeyParam(call.link.query)
    /\ Answered(200)
    /\ requests[1].url.host = "external.com"

FirstApiKey(q) ==
    LET at == {i \in 1..Len(q) : q[i].key = "apikey"}
    IN  q[CHOOSE i \in at : \A j \in at : i <= j].val

C4_Status200GivesBody ==
    (Returned("DownloadTorrent") /\ Answered(200))
    => /\ Succeeded
       /\ ret.val = [isNil |-> FALSE, bytes |-> reply.body]

\* C4, amended: when the fetch answers 200, DownloadTorrent returns the bytes
\* read from the response body, unchanged; it returns no error when the
\* body was read to its end, and the read error otherwise.
C4_Status200GivesBytesRead ==
    (Returned("DownloadTorrent") /\ Answered(200))
    => /\ ~ret.panic
       /\ ret.val = [isNil |-> FALSE, bytes |-> reply.body]
       /\ ret.err.isNil <=> ~reply.readErr

C4_Witness ==
    /\ Returned("DownloadTorrent") /\ Answered(200) /\ ~reply.readErr
    /\ ~SameHost
    /\ ret.val.bytes = Bytes("torrent file data")
    /\ ret.err.isNil

\* C5: whatever the operation, a response whose status is not 200 makes it
\* return an error whose message contains the status code in decimal.
C5_StatusInError ==
    (phase = "returned" /\ reply.kind = "response" /\ reply.status # 200)
    => /\ ~ret.panic
       /\ ~ret.err.isNil
       /\ ErrContains(ret.err, ToString(reply.status))

C5_Witness ==
    /\ Returned("TestConnection") /\ Answered(500)
    /\ ErrContains(ret.err, "500")

\* C6: a response whose status is not 200 makes the operation return an
\* error whose message contains the text of the body; GetIndexers answered
\* 401 with <error code="100" description="Invalid API Key"> returns an
\* error that contains "Invalid API Key".
C6_BodyInError ==
    (phase = "returned" /\ reply.kind = "response" /\ reply.status # 200)
    => /\ ~ret.err.isNil
       /\ Text(reply.body) \in Range(ret.err.msg)
       /\ (reply.body = ErrorXml("100", "Invalid API Key")
           => ErrContains(ret.err, "Invalid API Key"))

C6_Witness ==
    /\ Returned("GetIndexers") /\ Answered(401)
    /\ reply.body = ErrorXml("100", "Invalid API Key")
    /\ ErrContains(ret.err, "Invalid API Key")

\* The answer is a 200 response, read to its end, whose body is XML.
AnsweredXml == Answered(200) /\ ~reply.readErr /\ reply.body.kind = "xml"

\* C7: GetIndexers answered 200 with a body that is malformed XML returns a
\* decode error and no list.
C7_MalformedXmlIsError ==
    (Returned("GetIndexers") /\ AnsweredXml /\ reply.body.broken # "no")
    => /\ ~ret.err.isNil
       /\ Lit("failed to decode indexers response: ") \in Range(ret.err.msg)
       /\ ret.val.isNil

\* GetIndexers returned the listing of a well-formed <indexers> body.
Listed ==
    /\ Returned("GetIndexers") /\ AnsweredXml /\ reply.body.root = "indexers"
    /\ Succeeded
    /\ Len(ret.val.elems) = Len(reply.body.indexers)

\* C8: the Indexer returned for an indexer element has one category per
\* category element, with its id and name, and each of them one subcategory
\* per subcat element, with its id and name.
C8_CategoriesCopied ==
    Listed =>
    \A i \in 1..Len(reply.body.indexers) :
        LET cats == reply.body.indexers[i].categories
            got == ret.val.elems[i].Categories.elems
        IN  /\ Len(got) = Len(cats)
            /\ \A j \in 1..Len(cats) :
                  /\ got[j].ID = Atoi(cats[j].id)
                  /\ got[j].Name = cats[j].name
                  /\ Len(got[j].Subcats.elems) = Len(cats[j].subcats)
                  /\ \A k \in 1..Len(cats[j].subcats) :
                        /\ got[j].Subcats.elems[k].ID = Atoi(cats[j].subcats[k].id)
                        /\ got[j].Subcats.elems[k].Name = cats[j].subcats[k].name

C8_Witness ==
    /\ Listed
    /\ Len(reply.body.indexers) = 1
    /\ Len(reply.body.indexers[1].categories) = 2
    /\ Len(reply.body.indexers[1].categories[1].subcats) = 2
    /\ ret.val.elems[1].Categories.elems[1].Subcats.elems
          = <<[ID |-> 2020, Name |-> "SD"], [ID |-> 2010, Name |-> "HD"]>>
    /\ ret.val.elems[1].Categories.elems[2] =
          [ID |-> 5000, Name |-> "TV", Subcats |-> [isNil |-> FALSE, elems |-> <<>>]]

\* C9: the Indexer returned for an indexer element without category
\* elements has Categories empty and not nil.
C9_NoCategoriesIsEmptyNotNil ==
    Listed =>
    \A i \in 1..Len(reply.body.indexers) :
        reply.body.indexers[i].categories = <<>>
        => ret.val.elems[i].Categories = [isNil |-> FALSE, elems |-> <<>>]

C9_Witness ==
    /\ Listed
    /\ Len(reply.body.indexers) = 1
    /\ reply.body.indexers[1].categories = <<>>
    /\ ~ret.val.elems[1].Categories.isNil

\* The text elements and the search-mode elements of an indexer element, with
\* the Indexer field each one fills.
TextFields == {<<"description", "Description">>, <<"link", "SiteLink">>,
               <<"language", "Language">>, <<"type", "Type">>}
SearchModes == {<<"search", "Search">>, <<"tvSearch", "TVSearch">>,
                <<"movieSearch", "MovieSearch">>, <<"musicSearch", "MusicSearch">>,
                <<"audioSearch", "AudioSearch">>, <<"bookSearch", "BookSearch">>}

\* C10: a missing description, link, language or type gives "" in the
\* Indexer; a missing search-mode element gives a nil SearchType, one that
\* is there a SearchType with its available and supportedParams.
C10_MissingOptionalFields ==
    Listed =>
    \A i \in 1..Len(reply.body.indexers) :
        LET e == reply.body.indexers[i]
            x == ret.val.elems[i]
        IN  /\ \A f \in TextFields : ~e[f[1]].present => x[f[2]] = ""
            /\ \A m \in SearchModes :
                  IF e[m[1]].present
                  THEN x.Caps.Searching[m[2]] =
                          [isNil |-> FALSE, Available |-> e[m[1]].available,
                           SupportedParams |-> e[m[1]].supportedParams]
                  ELSE x.Caps.Searching[m[2]] = [isNil |-> TRUE]

C10_Witness ==
    /\ Listed
    /\ Len(reply.body.indexers) = 1
    /\ ~reply.body.indexers[1].link.present
    /\ reply.body.indexers[1].description.present
    /\ ~reply.body.indexers[1].tvSearch.present
    /\ reply.body.indexers[1].search.present
    /\ ret.val.elems[1].SiteLink = ""
    /\ ret.val.elems[1].Caps.Searching.TVSearch.isNil
    /\ ret.val.elems[1].Caps.Searching.Search.Available = "no"


\* The members of a result object that C11 is about.
ResultMembers == {"Title", "Size", "Seeders", "Peers", "Tracker"}

\* Search was answered 200 with a JSON object whose Results are encoded
\* SearchResults, and the body was read to its end.
AnsweredResults ==
    /\ Answered(200) /\ ~reply.readErr
    /\ reply.body.kind = "json" /\ reply.body.top = "object"
    /\ \A i \in 1..Len(reply.body.results) :
          ResultMembers \subseteq DOMAIN reply.body.results[i]

\* C11: Search answered 200 with a JSON-encoded SearchResponse returns as
\* many results as the body holds, in the body's order, each with the title,
\* size, seeders, peers and tracker of the encoded one.
C11_SearchResultsDecoded ==
    (Returned("Search") /\ AnsweredResults)
    => /\ Succeeded
       /\ ~ret.val.isNil
       /\ Len(ret.val.Results.elems) = Len(reply.body.results)
       /\ \A i \in 1..Len(reply.body.results) :
             \A m \in ResultMembers :
                ret.val.Results.elems[i][m] = reply.body.results[i][m]

C11_Witness ==
    /\ Returned("Search") /\ AnsweredResults
    /\ reply.body.results = <<SecondResult, SampleResult>>
    /\ ret.val.Results.elems[1].Seeders = 3
    /\ ret.val.Results.elems[2].Title = "Test Result"


\* The call sent one GET of the path on the scheme and host of the base
\* address, with exactly the segments of S as its query.
SentGet(path, S) ==
    /\ Len(requests) = 1
    /\ requests[1].method = "GET"
    /\ requests[1].url.scheme = client.baseURL.scheme
    /\ requests[1].url.host = client.baseURL.host
    /\ requests[1].url.path = path
    /\ Range(requests[1].url.query) = S
    /\ Len(requests[1].url.query) = Cardinality(S)

\* C12: Search sends a GET of /api/v2.0/indexers/all/results with exactly
\* apikey = the API key and Query = the query; GetServerConfig a GET of
\* /api/v2.0/server/config with exactly apikey = the API key.
C12_SearchAndConfigRequests ==
    /\ (Returned("Search") /\ client.baseURL.ok)
       => SentGet(<<"api", "v2.0", "indexers", "all", "results">>,
                  {Seg("apikey", client.apiKey), Seg("Query", call.query)})
    /\ (Returned("GetServerConfig") /\ client.baseURL.ok)
       => SentGet(<<"api", "v2.0", "server", "config">>,
                  {Seg("apikey", client.apiKey)})

C12_Witness ==
    /\ Returned("Search") /\ client.baseURL = PrefixBase
    /\ call.query = "matrix" /\ client.apiKey = "k2"
    /\ requests[1].url.query = <<Seg("Query", "matrix"), Seg("apikey", "k2")>>

\* C13: SearchWithIndexer sends a GET of /api/v2.0/indexers/<indexerID>/results,
\* indexerID as it was given, with exactly apikey and Query.
C13_IndexerIDVerbatim ==
    (Returned("SearchWithIndexer") /\ client.baseURL.ok)
    => SentGet(<<"api", "v2.0", "indexers">> \o call.indexerID \o <<"results">>,
               {Seg("apikey", client.apiKey), Seg("Query", call.query)})

C13_Witness ==
    /\ Returned("SearchWithIndexer") /\ client.baseURL.ok
    /\ call.indexerID = <<"a", "b">>
    /\ requests[1].url.path = <<"api", "v2.0", "indexers", "a", "b", "results">>

\* C14: GetIndexers sends a GET of /api/v2.0/indexers/all/results/torznab
\* with exactly apikey, t=indexers and configured=true, and decodes the body
\* as XML: a JSON body is a decode error, an <indexers> document a listing.
C14_TorznabRequest ==
    (Returned("GetIndexers") /\ client.baseURL.ok)
    => /\ SentGet(<<"api", "v2.0", "indexers", "all", "results", "torznab">>,
                  {Seg("apikey", client.apiKey), Seg("t", "indexers"),
                   Seg("configured", "true")})
       /\ (Answered(200) /\ ~reply.readErr /\ reply.body.kind = "json")
          => /\ ret.val.isNil
             /\ Lit("failed to decode indexers response: ") \in Range(ret.err.msg)
       /\ (Answered(200) /\ ~reply.readErr /\ reply.body = IndexersXml(<<>>))
          => Succeeded /\ ret.val = [isNil |-> FALSE, elems |-> <<>>]

C14_Witness ==
    /\ Returned("GetIndexers") /\ client.baseURL.ok
    /\ Answered(200) /\ ~reply.readErr /\ reply.body.kind = "json"
    /\ requests[1].url.query =
          <<Seg("apikey", client.apiKey), Seg("configured", "true"), Seg("t", "indexers")>>
    /\ ~ret.err.isNil


HasTarget ==
    /\ client.baseURL.ok
    /\ call.op = "DownloadTorrent" => call.link.ok

AsAlone(p) ==
    LET f == inflight[p]
        alone == Run(client, f.call, IF f.pc = "returned" /\ f.reply # NoReply
                                     THEN f.reply ELSE TransportFailure)
    IN /\ f.pc \in {"waiting", "returned"} => f.requests = alone.reqs
       /\ f.pc = "returned" =>
             /\ f.ret = [val |-> alone.val, err |-> alone.err, panic |-> alone.panic]
             /\ f.reply = NoReply <=> f.requests = <<>>
C18_UpstreamDescriptionSurfaced ==
    (Returned("GetIndexers") /\ AnsweredXml /\ reply.body.root = "error"
        /\ reply.body.broken = "no")
    => /\ ~ret.err.isNil
       /\ ErrContains(ret.err, reply.body.description)


\* The call's error says the response's status was rejected.
StatusRejected ==
    /\ ~ret.err.isNil
    /\ \/ Lit("unexpected response code: ") \in Range(ret.err.msg)
       \/ Lit("download failed (") \in Range(ret.err.msg)

\* The call's error says the connection failed.
ConnectionFailed ==
    /\ ~ret.err.isNil
    /\ \/ Lit("request failed: ") \in Range(ret.err.msg)
       \/ Lit("download error: ") \in Range(ret.err.msg)

\* C19 as stated: a call reports a transport error exactly when the status is
\* outside 200..299 or the connection fails, so a 204 is not rejected.
C19_Only2xxOutsideRejected ==
    (phase = "returned" /\ ~ret.panic /\ reply # NoReply)
    => /\ ConnectionFailed <=> reply.kind = "error"
       /\ StatusRejected <=> (reply.kind = "response" /\ reply.status \notin 200..299)

\* C19: a call whose request was answered reports a transport error exactly
\* when the connection failed or the status is not 200; a 204 is rejected like
\* any other status, with the status number in the message.
C19_OnlyStatus200Accepted ==
    (phase = "returned" /\ ~ret.panic /\ reply # NoReply)
    => /\ ConnectionFailed <=> reply.kind = "error"
       /\ StatusRejected <=> (reply.kind = "response" /\ reply.status # StatusOK)
       /\ StatusRejected => ErrContains(ret.err, ToString(reply.status))
C19_Witness ==
    /\ Returned("GetServerConfig")
    /\ Answered(204)
    /\ StatusRejected
    /\ ErrContains(ret.err, "204")


\* C20: in every list GetIndexers returns, no two entries have the same ID.
C20_IndexerIDsUnique ==
    Listed
    => \A i, j \in 1..Len(ret.val.elems) :
          i # j => ret.val.elems[i].ID # ret.val.elems[j].ID


\* The optional members of an encoded SearchResult, each with its zero value.
OptionalMembers ==
    {"InfoHash", "MinimumRatio", "DownloadVolumeFactor", "Genres", "Languages", "Author"}
ZeroOf(m) ==
    CASE m \in {"InfoHash", "Author"} -> ""
      [] m \in {"MinimumRatio", "DownloadVolumeFactor"} -> 0
      [] m \in {"Genres", "Languages"} -> <<>>
Without(o, m) == [k \in DOMAIN o \ {m} |-> o[k]]

\* C21: a decoded search result in which an optional member is present with
\* its zero value differs from the decoding of the same result without that
\* member.
C21_AbsentDiffersFromZero ==
    (Returned("Search") /\ AnsweredResults /\ Succeeded)
    => \A i \in 1..Len(reply.body.results) :
          \A m \in OptionalMembers :
             LET o == reply.body.results[i]
             IN (m \in DOMAIN o /\ o[m] = ZeroOf(m))
                => ret.val.Results.elems[i] # UnmarshalSearchResult(Without(o, m))


\* C22 as stated: a call that returns an error returns no value with it.
C22_ErrorMeansNoValue ==
    (phase = "returned" /\ ~ret.panic /\ ~ret.err.isNil) => ret.val.isNil

\* DownloadTorrent was answered 200 and the body's stream failed part-way.
BodyReadFailed == Returned("DownloadTorrent") /\ Answered(200) /\ reply.readErr

\* C22: a call that returns an error returns no value with it, except
\* DownloadTorrent answered 200 with a body whose reading fails: it returns
\* the bytes read so far, not nil, together with the read error.
C22_ErrorMeansNoValueButBytesRead ==
    (phase = "returned" /\ ~ret.panic /\ ~ret.err.isNil)
    => IF BodyReadFailed
       THEN ret.val = [isNil |-> FALSE, bytes |-> reply.body]
       ELSE ret.val.isNil
C22_Witness ==
    /\ Returned("GetIndexers")
    /\ AnsweredXml /\ reply.body.root = "error"
    /\ ~ret.err.isNil
    /\ ret.val.isNil


\* GetIndexers was answered 200 with a well-formed <indexers> listing, read
\* to its end.
AnsweredListing ==
    /\ Returned("GetIndexers") /\ AnsweredXml
    /\ reply.body.root = "indexers" /\ reply.body.broken = "no"

\* C23: GetIndexers returns one Indexer per indexer element, in the order of
\* the listing, whatever the configured flag; each Indexer's categories and
\* each category's subcategories are in the order of the listing; a listing
\* without indexer elements gives an empty list and no error.
C23_OrderPreserved ==
    /\ (AnsweredListing /\ reply.body.indexers = <<>>)
          => (Succeeded /\ ret.val = [isNil |-> FALSE, elems |-> <<>>])
    /\ (AnsweredListing /\ Succeeded)
          => LET src == reply.body.indexers
                 got == ret.val.elems
             IN  /\ Len(got) = Len(src)
                 /\ \A i \in 1..Len(src) :
                       /\ got[i].ID = src[i].id
                       /\ got[i].Configured = ParseBool(src[i].configured)
                       /\ Len(got[i].Categories.elems) = Len(src[i].categories)
                       /\ \A j \in 1..Len(src[i].categories) :
                             LET cat == src[i].categories[j]
                                 gc == got[i].Categories.elems[j]
                             IN  /\ gc.ID = Atoi(cat.id)
                                 /\ Len(gc.Subcats.elems) = Len(cat.subcats)
                                 /\ \A k \in 1..Len(cat.subcats) :
                                       gc.Subcats.elems[k].ID = Atoi(cat.subcats[k].id)
C23_Witness ==
    /\ AnsweredListing /\ Succeeded
    /\ Len(ret.val.elems) = 2
    /\ ret.val.elems[1].ID = "other"
    /\ ~ret.val.elems[1].Configured
    /\ ret.val.elems[2].ID = "test-indexer"
    /\ ret.val.elems[2].Configured


\* The operations that decode the body they fetch.
Decoding == {"Search", "SearchWithIndexer", "GetServerConfig", "GetIndexers"}

\* The body is a payload of the kind the operation decodes: a JSON object
\* for the searches and the configuration, a well-formed <indexers> document
\* with attributes of the declared types for the listing.
ValidPayload(op, b) ==
    IF op = "GetIndexers"
    THEN b.kind = "xml" /\ b.root = "indexers" /\ b.broken = "no" /\ AttrsOk(b.indexers)
    ELSE b.kind = "json" /\ b.top = "object"

\* The call's error says the body could not be decoded.
DecodeFailed ==
    /\ ~ret.err.isNil
    /\ \E t \in {"failed to decode search response: ", "failed to decode server config: ",
                  "failed to decode indexers response: "} : Lit(t) \in Range(ret.err.msg)

StatusErrorWithoutDecoding ==
    (phase = "returned" /\ call.op \in Decoding
        /\ reply.kind = "response" /\ reply.status # StatusOK)
    => /\ StatusRejected /\ ~DecodeFailed /\ ret.val.isNil

DecodeErrorOn200 ==
    (phase = "returned" /\ call.op \in Decoding
        /\ Answered(200) /\ ~reply.readErr /\ ~ValidPayload(call.op, reply.body))
    => /\ DecodeFailed /\ ~StatusRejected /\ ret.val.isNil

\* C24: in the decoding operations a response whose status is not 200 gives
\* the status error and is never decoded, also when its body is a valid
\* payload; a 200 response whose body is not a valid payload gives a decode
\* error and no result.
C24_StatusBeforeDecode == StatusErrorWithoutDecoding /\ DecodeErrorOn200


\* C25: every Indexer of a returned listing has the id attribute as ID, the
\* title as Name, the description, link, language and type as Description,
\* SiteLink, Language and Type, the configured attribute as Configured, the
\* server element's title as Caps.Server and the limits attributes, as text,
\* as Caps.Limits; a limits attribute that is not a number is no error.
C25_IndexerFieldsCopied ==
    /\ (AnsweredListing /\ AttrsOk(reply.body.indexers)) => Succeeded
    /\ (AnsweredListing /\ Succeeded)
        => /\ Len(ret.val.elems) = Len(reply.body.indexers)
           /\ \A i \in 1..Len(reply.body.indexers) :
                 LET e == reply.body.indexers[i]
                     x == ret.val.elems[i]
                 IN  /\ x.ID = e.id
                     /\ x.Name = e.title.text
                     /\ x.Description = e.description.text
                     /\ x.SiteLink = e.link.text
                     /\ x.Language = e.language.text
                     /\ x.Type = e.type.text
                     /\ x.Configured = ParseBool(e.configured)
                     /\ ~x.Caps.isNil
                     /\ x.Caps.Server = e.server
                     /\ x.Caps.Limits = [Default |-> e.limitsDefault, Max |-> e.limitsMax]
C25_Witness ==
    /\ AnsweredListing /\ Succeeded
    /\ Len(ret.val.elems) = 1
    /\ reply.body.indexers[1].limitsDefault = "unlimited"
    /\ ret.val.elems[1].Caps.Limits = [Default |-> "unlimited", Max |-> "100"]
    /\ ret.val.elems[1].Name = "Test Indexer"
    /\ ret.val.elems[1].SiteLink = "https://test.example.com"


\* C26: on a client whose base address does not parse, every operation
\* returns an error, sends no request and does not panic.
C26_BadBaseIsAnError ==
    (phase = "returned" /\ ~client.baseURL.ok)
    => /\ ~ret.panic
       /\ ~ret.err.isNil
       /\ requests = <<>>


\* The endpoint path and the query parameters of a decoding operation.
EndpointOf(cl) ==
    CASE cl.op = "Search" -> <<"api", "v2.0", "indexers", "all", "results">>
      [] cl.op = "SearchWithIndexer" ->
            <<"api", "v2.0", "indexers">> \o cl.indexerID \o <<"results">>
      [] cl.op = "GetIndexers" -> <<"api", "v2.0", "indexers", "all", "results", "torznab">>
      [] cl.op = "GetServerConfig" -> <<"api", "v2.0", "server", "config">>
QueryOf(c, cl) ==
    CASE cl.op \in {"Search", "SearchWithIndexer"} ->
            {Seg("apikey", c.apiKey), Seg("Query", cl.query)}
      [] cl.op = "GetIndexers" ->
            {Seg("apikey", c.apiKey), Seg("t", "indexers"), Seg("configured", "true")}
      [] cl.op = "GetServerConfig" -> {Seg("apikey", c.apiKey)}

\* C27: the request of Search, SearchWithIndexer, GetIndexers and
\* GetServerConfig has the scheme and host of the base address, the
\* operation's endpoint as its whole path and the operation's parameters as
\* its whole query: the path and the query of the base address are left out.
C27_BasePathAndQueryDropped ==
    (phase = "returned" /\ call.op \in Decoding /\ client.baseURL.ok)
    => /\ Len(requests) = 1
       /\ LET u == requests[1].url
          IN  /\ u.ok
              /\ u.scheme = client.baseURL.scheme
              /\ u.host = client.baseURL.host
              /\ u.path = EndpointOf(call)
              /\ Range(u.query) = QueryOf(client, call)
              /\ Len(u.query) = Cardinality(QueryOf(client, call))
C27_Witness ==
    /\ Returned("GetServerConfig")
    /\ client.baseURL = QueryBase
    /\ client.apiKey = "k2"
    /\ requests = <<Request(UrlText("http", "localhost:9117",
                                   <<"api", "v2.0", "server", "config">>,
                                   <<Seg("apikey", "k2")>>, ""))>>


\* DownloadTorrent added the API key to a same-host link.
KeyAdded ==
    /\ Downloaded /\ SameHost
    /\ Get(Query(Parse(call.link).url), "apikey") = ""
    /\ Len(requests) = 1

\* The values a query text gives for a key, in textual order.
ValuesOf(q, k) == MapSeq(LAMBDA s : s.val, SelectSeq(q, LAMBDA s : s.key = k))

\* C28: when DownloadTorrent adds apikey to a same-host link, every other
\* parameter of the link's query is in the request with the same values, and
\* the scheme, host, path and fragment are the link's.
C28_OtherParamsPreserved ==
    KeyAdded
    => LET u == requests[1].url
       IN  /\ u.scheme = call.link.scheme
           /\ u.host = call.link.host
           /\ u.path = call.link.path
           /\ u.fragment = call.link.fragment
           /\ \A k \in {s.key : s \in Range(call.link.query) \cup Range(u.query)} \ {"apikey"} :
                 ValuesOf(u.query, k) = ValuesOf(call.link.query, k)


\* The host[:port] in lower case and without the default port of http.
FoldedHost(h) ==
    CASE h = "LOCALHOST:9117" -> "localhost:9117"
      [] h = "jackett.local:80" -> "jackett.local"
      [] OTHER -> h

\* C29: the key is added exactly to the links whose host[:port] equals the
\* base address's as written, whatever their scheme; a link whose host equals
\* it only after folding letter case or dropping a default port is fetched
\* as given, without the key.
C29_SameHostIsExactHostOnly ==
    /\ (Downloaded /\ call.link.host = client.baseURL.host
           /\ Get(Query(Parse(call.link).url), "apikey") = "")
        => /\ Len(requests) = 1
           /\ Seg("apikey", client.apiKey) \in Range(requests[1].url.query)
    /\ (Downloaded /\ call.link.host # client.baseURL.host)
        => requests = <<Request(call.link)>>
    /\ (Downloaded /\ call.link.host # client.baseURL.host
           /\ FoldedHost(call.link.host) = FoldedHost(client.baseURL.host))
        => Seg("apikey", client.apiKey) \notin Range(requests[1].url.query)
C29_Witness ==
    /\ Downloaded
    /\ call.link.host = client.baseURL.host
    /\ call.link.scheme = "https" /\ client.baseURL.scheme = "http"
    /\ call.link.query = <<>>
    /\ requests[1].url.scheme = "https"
    /\ requests[1].url.query = <<Seg("apikey", client.apiKey)>>


====
